---------------------------- MODULE Spec2Model ----------------------------
(***************************************************************************)
(* Model of the text-to-SQL query endpoint of nutrition-dashboard          *)
(* (api/query.js): the classifier, the SQL validator, the generator's      *)
(* clean-up, the result formatter and the request handler that composes    *)
(* them around the two awaited collaborators (LLM and database).           *)
(*                                                                         *)
(* JavaScript strings that the code inspects character by character are    *)
(* sequences of one-character strings, so that trim, toLowerCase,          *)
(* startsWith, includes and replace are computed, not assumed.             *)
(***************************************************************************)
EXTENDS Integers, Sequences, FiniteSets, TLC

VARIABLES
    \* ---- request handler (module.exports of api/query.js) ----
    env,          \* process.env: DASHBOARD_PASSWORD and AUTH_SECRET
    pc,           \* position of the handler: idle, awaitLLM, awaitDB, done
    req,          \* the request being served
    question,     \* const { question } = req.body
    useSQL,       \* const useSQL = isAggregationQuery(question)
    sql,          \* const sql = await generateSQL(question)
    validation,   \* const validation = validateSQL(sql)
    llmResult,    \* what anthropic.messages.create settled with
    dbResult,     \* what pool.query settled with
    res,          \* responses written to res for this request
    log,          \* phases entered for this request, in order
    llmCalls,     \* prompts handed to anthropic.messages.create for this request
    validated,    \* validateSQL calls of this request: text and result
    dbQueries,    \* texts handed to pool.query for this request
    nreq,         \* number of requests received so far
    seen,         \* failures answered so far: cause and outcome
    \* ---- validateSQL applied to one input ----
    vSql, vResult,
    \* ---- isAggregationQuery applied to one input ----
    cQuestion, cResult,
    \* ---- formatResults applied to one input ----
    fRows, fResult

hvars == <<env, pc, req, question, useSQL, sql, validation, llmResult, dbResult,
           res, log, llmCalls, validated, dbQueries, nreq, seen>>
vvars == <<vSql, vResult>>
cvars == <<cQuestion, cResult>>
fvars == <<fRows, fResult>>
vars  == <<hvars, vvars, cvars, fvars>>

-----------------------------------------------------------------------------
(* Bounds *)

MaxSqlTokens == 3        \* tokens concatenated into a validateSQL input
MaxQuestionTokens == 3   \* tokens concatenated into a classifier input
MaxRows == 22            \* rows of a formatResults input
MaxRequests == 2         \* requests served one after the other

-----------------------------------------------------------------------------
(* JavaScript string primitives over sequences of characters *)

\* The lower-case form of each upper-case letter
LowerOf ==
    ("A" :> "a") @@ ("B" :> "b") @@ ("C" :> "c") @@ ("D" :> "d") @@
    ("E" :> "e") @@ ("F" :> "f") @@ ("G" :> "g") @@ ("H" :> "h") @@
    ("I" :> "i") @@ ("J" :> "j") @@ ("K" :> "k") @@ ("L" :> "l") @@
    ("M" :> "m") @@ ("N" :> "n") @@ ("O" :> "o") @@ ("P" :> "p") @@
    ("Q" :> "q") @@ ("R" :> "r") @@ ("S" :> "s") @@ ("T" :> "t") @@
    ("U" :> "u") @@ ("V" :> "v") @@ ("W" :> "w") @@ ("X" :> "x") @@
    ("Y" :> "y") @@ ("Z" :> "z")

WhiteSpace == {" ", "\n", "\t"}

LowerChar(c) == IF c \in DOMAIN LowerOf THEN LowerOf[c] ELSE c

RECURSIVE toLowerCase(_)
toLowerCase(s) ==
    IF s = <<>> THEN <<>> ELSE <<LowerChar(Head(s))>> \o toLowerCase(Tail(s))

RECURSIVE trimStart(_)
trimStart(s) ==
    IF s # <<>> /\ Head(s) \in WhiteSpace THEN trimStart(Tail(s)) ELSE s

RECURSIVE trimEnd(_)
trimEnd(s) ==
    IF s # <<>> /\ s[Len(s)] \in WhiteSpace
    THEN trimEnd(SubSeq(s, 1, Len(s) - 1)) ELSE s

trim(s) == trimEnd(trimStart(s))

startsWith(s, w) == Len(s) >= Len(w) /\ SubSeq(s, 1, Len(w)) = w

endsWith(s, w) ==
    Len(s) >= Len(w) /\ SubSeq(s, Len(s) - Len(w) + 1, Len(s)) = w

includes(s, w) ==
    \E i \in 0..(Len(s) - Len(w)) : SubSeq(s, i + 1, i + Len(w)) = w

\* s.replace(/w/g, '') and, with ci, s.replace(/w/gi, ''): leftmost matches,
\* scanned left to right, never re-scanning what was already passed.
RECURSIVE removeAll(_, _, _)
removeAll(s, w, ci) ==
    IF Len(s) < Len(w) THEN s
    ELSE LET h == SubSeq(s, 1, Len(w))
         IN  IF (IF ci THEN toLowerCase(h) ELSE h) = w
             THEN removeAll(SubSeq(s, Len(w) + 1, Len(s)), w, ci)
             ELSE <<Head(s)>> \o removeAll(Tail(s), w, ci)

RECURSIVE Concat(_)
Concat(ss) == IF ss = <<>> THEN <<>> ELSE Head(ss) \o Concat(Tail(ss))

SeqsUpTo(S, n) == UNION {[1..k -> S] : k \in 0..n}

-----------------------------------------------------------------------------
(* Words of the source *)

select          == <<"s","e","l","e","c","t">>
insert          == <<"i","n","s","e","r","t">>
update          == <<"u","p","d","a","t","e">>
delete          == <<"d","e","l","e","t","e">>
drop            == <<"d","r","o","p">>
alter           == <<"a","l","t","e","r">>
create          == <<"c","r","e","a","t","e">>
truncate        == <<"t","r","u","n","c","a","t","e">>
grant           == <<"g","r","a","n","t">>
revoke          == <<"r","e","v","o","k","e">>
semiDashDash    == <<";","-","-">>
union           == <<"u","n","i","o","n">>
food_entries    == <<"f","o","o","d","_","e","n","t","r","i","e","s">>
daily_nutrition == <<"d","a","i","l","y","_","n","u","t","r","i","t","i","o","n">>
weight          == <<"w","e","i","g","h","t">>

blocked == <<insert, update, delete, drop, alter, create, truncate, grant,
             revoke, semiDashDash, union>>

allowedTables == <<food_entries, daily_nutrition, weight>>

OnlySelectAllowed == "Only SELECT queries allowed"
MustReferenceTable == "Query must reference food_entries, daily_nutrition, or weight"
BlockedKeyword(word) == <<"Blocked keyword: ", word>>

-----------------------------------------------------------------------------
(* validateSQL *)

validateSQLNoLowerCase(text) ==
    LET normalized == trim(text)
        hits == {i \in 1..Len(blocked) : includes(normalized, blocked[i])}
    IN  IF ~startsWith(normalized, select)
        THEN [valid |-> FALSE, error |-> <<OnlySelectAllowed>>]
        ELSE IF hits # {}
        THEN [valid |-> FALSE,
              error |-> BlockedKeyword(blocked[CHOOSE i \in hits : \A j \in hits : i <= j])]
        ELSE IF ~\E t \in 1..Len(allowedTables) : includes(normalized, allowedTables[t])
        THEN [valid |-> FALSE, error |-> <<MustReferenceTable>>]
        ELSE [valid |-> TRUE, error |-> <<>>]

validateSQL(text) ==
    LET normalized == toLowerCase(trim(text))
        hits == {i \in 1..Len(blocked) : includes(normalized, blocked[i])}
    IN  IF ~startsWith(normalized, select)
        THEN [valid |-> FALSE, error |-> <<OnlySelectAllowed>>]
        ELSE IF hits # {}
        THEN [valid |-> FALSE,
              error |-> BlockedKeyword(blocked[CHOOSE i \in hits : \A j \in hits : i <= j])]
        ELSE IF ~\E t \in 1..Len(allowedTables) : includes(normalized, allowedTables[t])
        THEN [valid |-> FALSE, error |-> <<MustReferenceTable>>]
        ELSE [valid |-> TRUE, error |-> <<>>]

-----------------------------------------------------------------------------
(* validateSQL applied to one query text *)

\* The upper-case form of each lower-case letter
UpperOf ==
    ("a" :> "A") @@ ("b" :> "B") @@ ("c" :> "C") @@ ("d" :> "D") @@
    ("e" :> "E") @@ ("f" :> "F") @@ ("g" :> "G") @@ ("h" :> "H") @@
    ("i" :> "I") @@ ("j" :> "J") @@ ("k" :> "K") @@ ("l" :> "L") @@
    ("m" :> "M") @@ ("n" :> "N") @@ ("o" :> "O") @@ ("p" :> "P") @@
    ("q" :> "Q") @@ ("r" :> "R") @@ ("s" :> "S") @@ ("t" :> "T") @@
    ("u" :> "U") @@ ("v" :> "V") @@ ("w" :> "W") @@ ("x" :> "X") @@
    ("y" :> "Y") @@ ("z" :> "Z")

UpperChar(c) == IF c \in DOMAIN UpperOf THEN UpperOf[c] ELSE c

RECURSIVE toUpperCase(_)
toUpperCase(s) ==
    IF s = <<>> THEN <<>> ELSE <<UpperChar(Head(s))>> \o toUpperCase(Tail(s))

Capitalize(s) == IF s = <<>> THEN <<>> ELSE <<UpperChar(Head(s))>> \o Tail(s)

\* Pieces of query text: the keyword in three spellings, white space, the
\* relation names, every denylisted word, and two halves of a denylisted
\* word that only form it when they meet.
SqlTokens ==
    {select, toUpperCase(select), Capitalize(select), <<" ">>, <<"x">>,
     weight, toUpperCase(food_entries), daily_nutrition,
     toUpperCase(drop), <<"u","n">>, <<"i","o","n">>}
    \cup {blocked[i] : i \in 1..Len(blocked)}

SqlInputs == {Concat(ts) : ts \in SeqsUpTo(SqlTokens, MaxSqlTokens)}

InitValidate ==
    /\ vSql \in SqlInputs /\ vResult = <<>>
    /\ cQuestion = <<>> /\ cResult = <<>> /\ fRows = <<>> /\ fResult = <<>>

CallValidateSQL ==
    /\ vResult = <<>>
    /\ vResult' = <<validateSQL(vSql)>>
    /\ UNCHANGED vSql

-----------------------------------------------------------------------------
(* isAggregationQuery *)

re_how_many  == <<"h","o","w"," ","m","a","n","y">>
re_how_much  == <<"h","o","w"," ","m","u","c","h">>
re_count     == <<"c","o","u","n","t">>
re_total     == <<"t","o","t","a","l">>
re_sum       == <<"s","u","m">>
re_average   == <<"a","v","e","r","a","g","e">>
re_avg       == <<"a","v","g">>
re_times_did == <<"t","i","m","e","s"," ","d","i","d">>
re_days_did  == <<"d","a","y","s"," ","d","i","d">>
re_frequency == <<"f","r","e","q","u","e","n","c","y">>
re_often     == <<"o","f","t","e","n">>
re_number_of == <<"n","u","m","b","e","r"," ","o","f">>

patterns == <<re_how_many, re_how_much, re_count, re_total, re_sum, re_average,
              re_avg, re_times_did, re_days_did, re_frequency, re_often,
              re_number_of>>

\* /p/i.test(s) for a pattern p of literal lower-case characters
testI(p, s) == includes(toLowerCase(s), p)

isAggregationQueryNoOften(q) ==
    LET lq == toLowerCase(q)
    IN  \E i \in 1..Len(patterns) : patterns[i] # re_often /\ testI(patterns[i], lq)

isAggregationQuery(q) ==
    LET lq == toLowerCase(q)
    IN  \E i \in 1..Len(patterns) : testI(patterns[i], lq)

-----------------------------------------------------------------------------
(* isAggregationQuery applied to one question *)

w_what    == <<"w","h","a","t">>
w_eat     == <<"e","a","t">>
w_consume == <<"c","o","n","s","u","m","e">>
w_how     == <<"h","o","w">>
w_of      == <<"o","f">>
w_ten     == <<"t","e","n">>

QuestionTokens ==
    {re_how_many, Capitalize(re_how_much), toUpperCase(re_count), re_total,
     re_sum, Capitalize(re_average), re_avg, re_times_did, re_days_did,
     toUpperCase(re_frequency), re_often, re_number_of,
     <<" ">>, w_what, w_eat, w_consume, w_how, w_of, w_ten}

QuestionInputs == {Concat(ts) : ts \in SeqsUpTo(QuestionTokens, MaxQuestionTokens)}

InitClassify ==
    /\ cQuestion \in QuestionInputs /\ cResult = <<>>
    /\ vSql = <<>> /\ vResult = <<>> /\ fRows = <<>> /\ fResult = <<>>

CallIsAggregationQuery ==
    /\ cResult = <<>>
    /\ cResult' = <<isAggregationQuery(cQuestion)>>
    /\ UNCHANGED cQuestion

-----------------------------------------------------------------------------
(* formatResults *)

\* JavaScript values held by a row: a row is a record from column names to
\* these; a column the row does not have reads as undefined.  Numbers are
\* kept in tenths (v = 125 is 12.5).
Undefined   == [t |-> "undefined"]
Null        == [t |-> "null"]
Str(s)      == [t |-> "str", v |-> s]
Num(tenths) == [t |-> "num", v |-> tenths]
DateObj(d)  == [t |-> "date", v |-> d]

Get(r, f) == IF f \in DOMAIN r THEN r[f] ELSE Undefined

Defined(v) == v.t # "undefined"

Text(chars)  == [t |-> "text", v |-> chars]

Truthy(v) ==
    \/ v.t = "date"
    \/ v.t = "object"
    \/ v.t = "text" /\ v.v # <<>>
    \/ v.t = "str" /\ v.v # ""
    \/ v.t = "num" /\ v.v # 0

NumStr(n) ==
    IF n % 10 = 0 THEN ToString(n \div 10)
    ELSE ToString(n \div 10) \o "." \o ToString(n % 10)

\* Date.prototype.toISOString(), as the pieces split('T') cuts it into
toISOString(d) == <<d.v, "T", "00:00:00.000Z">>

\* s.split('T')[0]
splitT0(pieces) == pieces[1]

\* `${v}`
Render(v) ==
    CASE v.t = "str"  -> v.v
      [] v.t = "num"  -> NumStr(v.v)
      [] v.t = "date" -> toISOString(v)[1] \o "T" \o toISOString(v)[3]
      [] v.t = "null" -> "null"
      [] OTHER        -> "undefined"

\* Math.round(v): the nearest integer, halves upwards
MathRound(v) == IF v.t = "num" THEN Num(((v.v + 5) \div 10) * 10) ELSE v

Columns == <<"date", "food_name", "calories", "days", "entries", "count",
             "total", "total_protein", "total_calories", "weight_kg">>

RECURSIVE stringifyFrom(_, _)
stringifyFrom(r, i) ==
    IF i > Len(Columns) THEN <<>>
    ELSE (IF Columns[i] \in DOMAIN r
          THEN <<Columns[i], ":", Render(r[Columns[i]]), ",">> ELSE <<>>)
         \o stringifyFrom(r, i + 1)

JSONstringify(r) == <<"{">> \o stringifyFrom(r, 1) \o <<"}">>

ListLimit == 20

Bullet == "(bullet) "

NoMatching == "No matching entries found."

bulletLine(r) ==
    IF Truthy(Get(r, "date")) /\ Truthy(Get(r, "food_name"))
    THEN LET d == Get(r, "date")
             date == IF d.t = "date" THEN splitT0(toISOString(d)) ELSE Render(d)
         IN  <<Bullet, date, ": ", Render(Get(r, "food_name"))>>
             \o (IF Truthy(Get(r, "calories"))
                 THEN <<" (", Render(Get(r, "calories")), " cal)">> ELSE <<>>)
             \o <<"\n">>
    ELSE <<>>

RECURSIVE forEachBullet(_)
forEachBullet(rs) ==
    IF rs = <<>> THEN <<>> ELSE bulletLine(Head(rs)) \o forEachBullet(Tail(rs))

slice(rs, from, to) ==
    SubSeq(rs, from + 1, IF Len(rs) < to THEN Len(rs) ELSE to)

aggregateText(r) ==
    IF Defined(Get(r, "days")) /\ Defined(Get(r, "entries"))
    THEN <<"Found ", Render(Get(r, "entries")), " entries across ",
           Render(Get(r, "days")), " different days.">>
         \o (IF Truthy(Get(r, "total"))
             THEN <<" Total quantity: ", Render(Get(r, "total"))>> ELSE <<>>)
    ELSE IF Defined(Get(r, "count"))
    THEN <<"Count: ", Render(Get(r, "count"))>>
    ELSE IF Defined(Get(r, "total_protein"))
    THEN <<"Total protein: ", Render(MathRound(Get(r, "total_protein"))), "g">>
    ELSE IF Defined(Get(r, "total_calories"))
    THEN <<"Total calories: ", Render(MathRound(Get(r, "total_calories")))>>
    ELSE JSONstringify(r)

isAggregateRow(rows) ==
    /\ Len(rows) = 1
    /\ \/ Defined(Get(rows[1], "days"))
       \/ Defined(Get(rows[1], "entries"))
       \/ Defined(Get(rows[1], "count"))

listingTextAllRows(rows) ==
    <<"Found ", ToString(Len(rows)), " entries:\n\n">>
    \o forEachBullet(rows)
    \o (IF Len(rows) > ListLimit
        THEN <<"\n... and ", ToString(Len(rows) - ListLimit), " more entries">>
        ELSE <<>>)

listingText(rows) ==
    <<"Found ", ToString(Len(rows)), " entries:\n\n">>
    \o forEachBullet(slice(rows, 0, ListLimit))
    \o (IF Len(rows) > ListLimit
        THEN <<"\n... and ", ToString(Len(rows) - ListLimit), " more entries">>
        ELSE <<>>)

formatResults(q, text, rows, executionTime) ==
    [answer |-> IF Len(rows) = 0 THEN <<NoMatching>>
                ELSE IF isAggregateRow(rows) THEN aggregateText(rows[1])
                ELSE listingText(rows),
     sql |-> text,
     rowCount |-> Len(rows),
     executionTimeMs |-> executionTime,
     method |-> "sql"]

-----------------------------------------------------------------------------
(* formatResults applied to one result set *)

Day(i) == "2025-01-" \o (IF i < 10 THEN "0" ELSE "") \o ToString(i)

FullRow(i) ==
    [date |-> Str(Day(i)), food_name |-> Str("gin"), calories |-> Num(i * 125)]

RowKinds ==
    {"full", "dateobj", "nocal", "zerocal", "daily", "weight", "nulldate",
     "daysentries", "daysentriestotal", "count", "entriesprotein",
     "dayscalories", "entriesonly", "proteinonly"}

\* Row i of a result set of n rows, newest first.  p.k names the one row of
\* kind "noname" that lacks its food_name.
RowOf(p, i, n) ==
    LET d == n - i + 1
    IN  CASE p.kind = "full"     -> FullRow(d)
          [] p.kind = "dateobj"  -> [FullRow(d) EXCEPT !.date = DateObj(Day(d))]
          [] p.kind = "nocal"    -> [date |-> Str(Day(d)), food_name |-> Str("gin")]
          [] p.kind = "zerocal"  -> [FullRow(d) EXCEPT !.calories = Num(0)]
          [] p.kind = "daily"    -> [date |-> Str(Day(d)), calories |-> Num(d * 125)]
          [] p.kind = "weight"   -> [date |-> DateObj(Day(d)), weight_kg |-> Num(801)]
          [] p.kind = "nulldate" -> [FullRow(d) EXCEPT !.date = Null]
          [] p.kind = "noname"   ->
                IF i = p.k THEN [FullRow(d) EXCEPT !.food_name = Str("")]
                ELSE FullRow(d)
          [] p.kind = "daysentries" -> [days |-> Str("3"), entries |-> Str("5")]
          [] p.kind = "daysentriestotal" ->
                [days |-> Str("3"), entries |-> Str("5"), total |-> Num(75)]
          [] p.kind = "count"    -> [count |-> Str("7")]
          [] p.kind = "entriesprotein" ->
                [entries |-> Str("5"), total_protein |-> Num(1235)]
          [] p.kind = "dayscalories" ->
                [days |-> Str("3"), total_calories |-> Num(20004)]
          [] p.kind = "entriesonly" -> [entries |-> Str("5")]
          [] OTHER               -> [total_protein |-> Num(1235)]

Profiles ==
    {[kind |-> k, k |-> 0] : k \in RowKinds}
    \cup {[kind |-> "noname", k |-> k] : k \in 1..MaxRows}

RowInputs ==
    {[i \in 1..n |-> RowOf(p, i, n)] : n \in 0..MaxRows, p \in Profiles}

w_q == <<"h","o","w"," ","m","a","n","y">>
w_sql == select \o <<" ">> \o food_entries

InitFormat ==
    /\ fRows \in RowInputs /\ fResult = <<>>
    /\ vSql = <<>> /\ vResult = <<>> /\ cQuestion = <<>> /\ cResult = <<>>

CallFormatResults ==
    /\ fResult = <<>>
    /\ fResult' = <<formatResults(w_q, w_sql, fRows, 12)>>
    /\ UNCHANGED fRows

-----------------------------------------------------------------------------
(* generateSQL *)

\* The backtick character, which a TLA+ string cannot hold.
BT == "BACKTICK"

fence_sql == <<BT, BT, BT, "s", "q", "l">>
fence     == <<BT, BT, BT>>

\* Lines 104-110: the prompt is built and the completion is requested.
promptFor(q) == <<"TEXT_TO_SQL_PROMPT", q>>

\* Lines 112-122: the completion's text, cleaned up.
cleanCompletion(text) ==
    LET t1 == trim(text)
        t2 == trim(removeAll(removeAll(t1, fence_sql, TRUE), fence, FALSE))
    IN  IF endsWith(t2, <<";">>) THEN SubSeq(t2, 1, Len(t2) - 1) ELSE t2

-----------------------------------------------------------------------------
(* What the collaborators settle with *)

NoResult == [kind |-> "none"]
Throw(m) == [kind |-> "throw", message |-> m]
Completion(content) == [kind |-> "response", content |-> content]
QueryResult(rows, ms) == [kind |-> "rows", rows |-> rows, ms |-> ms]

w_from  == <<" ","f","r","o","m"," ">>
w_star  == <<" ","*">>
w_table == <<" ","t","a","b","l","e"," ">>
w_one   == <<" ","1">>
w_sorry == <<"I"," ","c","a","n","n","o","t"," ","a","n","s","w","e","r"," ","t","h","a","t">>

CompletionTexts ==
    {toUpperCase(select) \o w_star \o toUpperCase(w_from) \o food_entries \o <<";">>,
     fence_sql \o <<"\n">> \o select \o w_star \o w_from \o weight \o <<"\n">> \o fence,
     toUpperCase(fence_sql) \o select \o w_star \o w_from \o daily_nutrition \o <<";">> \o fence,
     <<" ">> \o Capitalize(select) \o w_star \o w_from \o Capitalize(weight) \o <<" ", "\n">>,
     toUpperCase(drop) \o w_table \o weight,
     select \o w_star \o w_from \o weight \o <<";", " ">> \o drop \o w_table \o weight,
     select \o w_star \o w_from \o weight \o <<" ">> \o toUpperCase(union) \o <<" ">> \o select \o w_one,
     select \o w_one,
     w_sorry,
     fence_sql \o <<"\n">> \o fence,
     <<" ", "\n">>,
     <<>>}

LLMErrors == {"Request timed out.", "529 overloaded_error"}

NoTextMessage == "Cannot read properties of undefined (reading 'text')"

LLMResults ==
    {Throw(m) : m \in LLMErrors}
    \cup {Completion(<<>>)}
    \cup {Completion(<<[type |-> "text", text |-> c]>>) : c \in CompletionTexts}

DBErrors == {"Request timed out.", "syntax error at or near \"*\""}

HandlerRowSets ==
    {<<>>,
     <<RowOf([kind |-> "daysentries", k |-> 0], 1, 1)>>,
     [i \in 1..(ListLimit + 1) |-> RowOf([kind |-> "dateobj", k |-> 0], i, ListLimit + 1)]}

DBResults ==
    {Throw(m) : m \in DBErrors}
    \cup {QueryResult(rows, ms) : rows \in HandlerRowSets, ms \in {0, 37}}

-----------------------------------------------------------------------------
(* process.env and verifyToken *)

DefaultSecret == "nutrition-dashboard-2026"

Passwords == {Undefined, Str(""), Str("hunter2")}
Secrets   == {Undefined, Str("s3cret")}

\* crypto.createHash('sha256').update(x).digest('hex'): one digest per input
sha256hex(x) == "sha256(" \o x \o ")"

secretOf(e) == IF Truthy(e.AUTH_SECRET) THEN e.AUTH_SECRET.v ELSE DefaultSecret

expectedToken(e) == sha256hex(e.DASHBOARD_PASSWORD.v \o secretOf(e))

verifyTokenAllowAll(token) == TRUE

verifyToken(token) ==
    IF ~Truthy(env.DASHBOARD_PASSWORD) THEN TRUE
    ELSE token.t = "str" /\ token.v = expectedToken(env)

\* A header value is kept as the pieces it is written from.
RECURSIVE join(_)
join(pieces) == IF pieces = <<>> THEN "" ELSE Head(pieces) \o join(Tail(pieces))

RECURSIVE removeFirst(_, _)
removeFirst(pieces, w) ==
    IF pieces = <<>> THEN <<>>
    ELSE IF Head(pieces) = w THEN Tail(pieces)
    ELSE <<Head(pieces)>> \o removeFirst(Tail(pieces), w)

\* req.headers.authorization?.replace('Bearer ', '')
tokenOf(r) ==
    IF r.authorization.t = "undefined" THEN Undefined
    ELSE Str(join(removeFirst(r.authorization.v, "Bearer ")))

-----------------------------------------------------------------------------
(* Requests *)

q_gin  == <<"h","o","w"," ","m","a","n","y"," ","g","i","n">>
q_beer == <<"H","o","w"," ","O","F","T","E","N"," ","b","e","e","r">>
q_eat  == <<"w","h","a","t"," ","s","h","o","u","l","d"," ","I"," ","e","a","t">>

Header(pieces) == [t |-> "header", v |-> pieces]

GoodTokens ==
    {sha256hex("hunter2" \o DefaultSecret), sha256hex("hunter2" \o "s3cret")}

Authorizations ==
    {Undefined, Header(<<"Bearer ", "letmein">>)}
    \cup {Header(<<"Bearer ", g>>) : g \in GoodTokens}
    \cup {Header(<<sha256hex("hunter2" \o DefaultSecret)>>)}

Body(q) == [t |-> "object", question |-> q]

Bodies ==
    {Undefined, Body(Undefined), Body(Text(<<>>)), Body(Num(420))}
    \cup {Body(Text(q)) : q \in {q_gin, q_beer, q_eat}}

Requests ==
    [method : {"OPTIONS", "GET", "POST"},
     authorization : Authorizations,
     body : Bodies]

NoRequest == [method |-> "", authorization |-> Undefined, body |-> Undefined]

-----------------------------------------------------------------------------
(* The handler: module.exports = async (req, res) => { ... }                *)
(* Its local state is a record; each operator below is a stretch of the     *)
(* handler's code and maps the locals before it to the locals after it.     *)

Fresh ==
    [pc |-> "idle", question |-> Undefined, useSQL |-> <<>>, sql |-> <<>>,
     validation |-> <<>>, llmResult |-> NoResult, dbResult |-> NoResult,
     res |-> <<>>, log |-> <<>>, llmCalls |-> <<>>, validated |-> <<>>,
     dbQueries |-> <<>>]

Locals ==
    [pc |-> pc, question |-> question, useSQL |-> useSQL, sql |-> sql,
     validation |-> validation, llmResult |-> llmResult, dbResult |-> dbResult,
     res |-> res, log |-> log, llmCalls |-> llmCalls, validated |-> validated,
     dbQueries |-> dbQueries]

\* res.status(status).json(body) and return
respond(L, status, body) ==
    [L EXCEPT !.res = Append(@, [status |-> status, body |-> body]),
              !.pc = "done"]

QueryFailed == "Query failed"
FailedValidation == "Generated SQL failed validation"

catchMasked(L, message) ==
    respond(L, 500, [error |-> QueryFailed, message |-> "Internal error"])

catchAsBadRequest(L, message) ==
    respond(L, 400, [error |-> FailedValidation, message |-> message])

\* Lines 236-242
catch(L, message) ==
    respond(L, 500, [error |-> QueryFailed, message |-> message])

\* Lines 226-228: pool.query(sql) is called and awaited
callQuery(L, text) ==
    [L EXCEPT !.log = Append(@, "execute"),
              !.dbQueries = Append(@, text),
              !.pc = "awaitDB"]

\* Line 214 up to the await inside generateSQL (lines 104-110)
callGenerateSQL(L, q) ==
    [L EXCEPT !.log = Append(@, "generate"),
              !.llmCalls = Append(@, promptFor(q)),
              !.pc = "awaitLLM"]

executeUnvalidated(L, text) ==
    LET checked == validateSQL(text)
        L1 == [L EXCEPT !.sql = <<text>>,
                        !.log = Append(@, "validate"),
                        !.validated = Append(@, [sql |-> text, valid |-> checked.valid]),
                        !.validation = <<checked>>]
    IN  callQuery(L1, text)

regenerateOnRejection(L, text) ==
    LET checked == validateSQL(text)
        L1 == [L EXCEPT !.sql = <<text>>,
                        !.log = Append(@, "validate"),
                        !.validated = Append(@, [sql |-> text, valid |-> checked.valid]),
                        !.validation = <<checked>>]
    IN  IF ~checked.valid THEN callGenerateSQL(L1, L.question.v)
        ELSE callQuery(L1, text)

rejectWithoutReason(L, text) ==
    LET checked == validateSQL(text)
        L1 == [L EXCEPT !.sql = <<text>>,
                        !.log = Append(@, "validate"),
                        !.validated = Append(@, [sql |-> text, valid |-> checked.valid]),
                        !.validation = <<checked>>]
    IN  IF ~checked.valid
        THEN respond(L1, 400, [error |-> FailedValidation,
                               reason |-> <<OnlySelectAllowed>>,
                               sql |-> text])
        ELSE callQuery(L1, text)

\* Lines 214-228, from the value generateSQL returned
validateAndExecute(L, text) ==
    LET checked == validateSQL(text)
        L1 == [L EXCEPT !.sql = <<text>>,
                        !.log = Append(@, "validate"),
                        !.validated = Append(@, [sql |-> text, valid |-> checked.valid]),
                        !.validation = <<checked>>]
    IN  IF ~checked.valid
        THEN respond(L1, 400, [error |-> FailedValidation,
                               reason |-> checked.error,
                               sql |-> text])
        ELSE callQuery(L1, text)

\* generateSQL from its await on (lines 106-122), then the handler
resumeGenerateSQL(L, result) ==
    LET L1 == [L EXCEPT !.llmResult = result]
    IN  IF result.kind = "throw" THEN catch(L1, result.message)
        ELSE IF result.content = <<>> THEN catch(L1, NoTextMessage)
        ELSE validateAndExecute(L1, cleanCompletion(result.content[1].text))

\* Lines 228-234, from pool.query settling
resumeQuery(L, result) ==
    LET L1 == [L EXCEPT !.dbResult = result]
    IN  IF result.kind = "throw" THEN catch(L1, result.message)
        ELSE respond([L1 EXCEPT !.log = Append(@, "format")], 200,
                     formatResults(L1.question.v, L1.sql[1], result.rows, result.ms))

Redirect ==
    [answer |-> "This question is better suited for the general Ask Henry feature.",
     method |-> "redirect",
     suggestion |-> "Try the main Ask Henry feature for this type of question."]

routeAlwaysSQL(L, q) ==
    LET L1 == [L EXCEPT !.log = Append(@, "classify"),
                        !.useSQL = <<isAggregationQuery(q)>>]
    IN  callGenerateSQL(L1, q)

\* Lines 201-214
routeQuestion(L, q) ==
    LET L1 == [L EXCEPT !.log = Append(@, "classify"),
                        !.useSQL = <<isAggregationQuery(q)>>]
    IN  IF ~L1.useSQL[1] THEN respond(L1, 200, Redirect)
        ELSE callGenerateSQL(L1, q)

NoBodyMessage ==
    "Cannot destructure property 'question' of 'req.body' as it is undefined."
NotAStringMessage == "question.toLowerCase is not a function"

\* Lines 194-202
tryBlock(L, r) ==
    IF r.body.t = "undefined" THEN catch(L, NoBodyMessage)
    ELSE LET L1 == [L EXCEPT !.question = r.body.question]
         IN  IF ~Truthy(L1.question)
             THEN respond(L1, 400, [error |-> "Question required"])
             ELSE IF L1.question.t # "text" THEN catch(L1, NotAStringMessage)
             ELSE routeQuestion(L1, L1.question.v)

\* Lines 175-243, from entry to the first await or to the response
handleRequest(L, r) ==
    IF r.method = "OPTIONS" THEN respond(L, 200, [end |-> TRUE])
    ELSE IF r.method # "POST"
    THEN respond(L, 405, [error |-> "Method not allowed"])
    ELSE IF Truthy(env.DASHBOARD_PASSWORD) /\ ~verifyToken(tokenOf(r))
    THEN respond(L, 401, [error |-> "Unauthorized"])
    ELSE tryBlock(L, r)

-----------------------------------------------------------------------------
(* What a caller can tell from an answer, and what caused it *)

ErrorOf(body) == IF "error" \in DOMAIN body THEN body.error ELSE ""

EmptyCompletion(result) ==
    /\ result.kind = "response"
    /\ \/ result.content = <<>>
       \/ trim(result.content[1].text) = <<>>

CauseOf(L) ==
    IF L.llmResult.kind = "throw" THEN "llm_error"
    ELSE IF EmptyCompletion(L.llmResult) THEN "empty_completion"
    ELSE IF L.dbResult.kind = "throw" THEN "execution"
    ELSE IF L.validation # <<>> /\ ~L.validation[1].valid THEN "validation"
    ELSE "other"

Noted(L) ==
    IF L.pc = "done" /\ CauseOf(L) # "other"
    THEN seen \cup {[cause |-> CauseOf(L),
                     status |-> L.res[Len(L.res)].status,
                     error |-> ErrorOf(L.res[Len(L.res)].body)]}
    ELSE seen

SetLocals(L) ==
    /\ pc' = L.pc
    /\ question' = L.question
    /\ useSQL' = L.useSQL
    /\ sql' = L.sql
    /\ validation' = L.validation
    /\ llmResult' = L.llmResult
    /\ dbResult' = L.dbResult
    /\ res' = L.res
    /\ log' = L.log
    /\ llmCalls' = L.llmCalls
    /\ validated' = L.validated
    /\ dbQueries' = L.dbQueries
    /\ seen' = Noted(L)

-----------------------------------------------------------------------------
(* Specification of the handler *)

Envs == [DASHBOARD_PASSWORD : Passwords, AUTH_SECRET : Secrets]

PureIdle ==
    /\ vSql = <<>> /\ vResult = <<>>
    /\ cQuestion = <<>> /\ cResult = <<>>
    /\ fRows = <<>> /\ fResult = <<>>

HandlerFresh ==
    /\ req = NoRequest
    /\ nreq = 0
    /\ seen = {}
    /\ pc = Fresh.pc
    /\ question = Fresh.question
    /\ useSQL = Fresh.useSQL
    /\ sql = Fresh.sql
    /\ validation = Fresh.validation
    /\ llmResult = Fresh.llmResult
    /\ dbResult = Fresh.dbResult
    /\ res = Fresh.res
    /\ log = Fresh.log
    /\ llmCalls = Fresh.llmCalls
    /\ validated = Fresh.validated
    /\ dbQueries = Fresh.dbQueries

Init == env \in Envs /\ HandlerFresh /\ PureIdle

\* A request arrives; the handler runs to its first await or to its response.
ReceiveRequest ==
    /\ pc \in {"idle", "done"}
    /\ nreq < MaxRequests
    /\ \E r \in Requests :
          /\ req' = r
          /\ \E L \in {handleRequest(Fresh, r)} : SetLocals(L)
    /\ nreq' = nreq + 1
    /\ UNCHANGED <<env, vvars, cvars, fvars>>

\* anthropic.messages.create settles; the handler runs on.
LLMSettles ==
    /\ pc = "awaitLLM"
    /\ \E result \in LLMResults :
          \E L \in {resumeGenerateSQL(Locals, result)} : SetLocals(L)
    /\ UNCHANGED <<env, req, nreq, vvars, cvars, fvars>>

\* pool.query settles; the handler runs on.
DBSettles ==
    /\ pc = "awaitDB"
    /\ \E result \in DBResults :
          \E L \in {resumeQuery(Locals, result)} : SetLocals(L)
    /\ UNCHANGED <<env, req, nreq, vvars, cvars, fvars>>

Next == ReceiveRequest \/ LLMSettles \/ DBSettles

Spec == Init /\ [][Next]_vars

-----------------------------------------------------------------------------
(* Specifications of the pure functions, each applied to one input *)

HandlerIdle ==
    /\ env = [DASHBOARD_PASSWORD |-> Undefined, AUTH_SECRET |-> Undefined]
    /\ HandlerFresh

InitV == HandlerIdle /\ InitValidate

NextValidate == CallValidateSQL /\ UNCHANGED <<hvars, cvars, fvars>>

SpecValidate == InitV /\ [][NextValidate]_vars

InitC == HandlerIdle /\ InitClassify

NextClassify == CallIsAggregationQuery /\ UNCHANGED <<hvars, vvars, fvars>>

SpecClassify == InitC /\ [][NextClassify]_vars

InitF == HandlerIdle /\ InitFormat

NextFormat == CallFormatResults /\ UNCHANGED <<hvars, vvars, cvars>>

SpecFormat == InitF /\ [][NextFormat]_vars

-----------------------------------------------------------------------------
(* Properties of the handler, checked under Spec *)

Phases == SelectSeq(log, LAMBDA p : p \in {"generate", "validate", "execute"})

Rejected == validation # <<>> /\ ~validation[1].valid

\* C1: the database is only ever called with a generated query for which
\* validateSQL, called on that exact text in this invocation, returned an
\* accepting result; a rejected or never validated query is never executed.
C1_ExecutedOnlyAfterAcceptance ==
    \A i \in 1..Len(dbQueries) :
        /\ \E j \in 1..Len(validated) :
              validated[j].sql = dbQueries[i] /\ validated[j].valid
        /\ ~\E j \in 1..Len(validated) :
              validated[j].sql = dbQueries[i] /\ ~validated[j].valid
        /\ validation # <<>> /\ validation[1].valid
        /\ sql = <<dbQueries[i]>>

\* A cleaned-up completion that differs from the raw one has been accepted
\* and handed to the database.
C1_Witness ==
    /\ pc = "awaitDB"
    /\ dbQueries = <<cleanCompletion(llmResult.content[1].text)>>
    /\ dbQueries[1] # llmResult.content[1].text

\* C2: within one invocation generation, validation and execution happen at
\* most once each and only in that order; a rejection or a failure of a
\* phase ends the invocation, so the LLM and the database are each called at
\* most once.
C2_PhasesOnceInOrder ==
    /\ Phases \in {<<>>, <<"generate">>, <<"generate", "validate">>,
                   <<"generate", "validate", "execute">>}
    /\ Len(llmCalls) <= 1
    /\ Len(dbQueries) <= 1
    /\ Len(validated) <= 1
    /\ Rejected => pc = "done" /\ Phases = <<"generate", "validate">>
    /\ llmResult.kind = "throw" => pc = "done" /\ Phases = <<"generate">>
    /\ dbResult.kind = "throw" =>
          pc = "done" /\ Phases = <<"generate", "validate", "execute">>

C2_Witness ==
    /\ pc = "done"
    /\ Rejected
    /\ log = <<"classify", "generate", "validate">>
    /\ nreq = MaxRequests

\* C3: when the call to the LLM fails, the invocation ends with a reported
\* failure that carries the underlying message, and the database is never
\* called in that invocation.
C3_GenerationFailureReported ==
    llmResult.kind = "throw" =>
        /\ pc = "done"
        /\ res = <<[status |-> 500,
                    body |-> [error |-> QueryFailed,
                              message |-> llmResult.message]]>>
        /\ dbQueries = <<>>
        /\ dbResult = NoResult

C3_Witness ==
    /\ llmResult.kind = "throw"
    /\ llmResult.message = "529 overloaded_error"
    /\ pc = "done"

\* C5: when the classifier returns false, the invocation answers with the
\* fallback signal, tagged 'redirect', and neither the LLM nor the database
\* is called in that invocation.
C5_FallbackCallsNothing ==
    useSQL = <<FALSE>> =>
        /\ pc = "done"
        /\ Len(res) = 1
        /\ res[1].status = 200
        /\ "method" \in DOMAIN res[1].body
        /\ res[1].body.method = "redirect"
        /\ llmCalls = <<>>
        /\ dbQueries = <<>>
        /\ llmResult = NoResult
        /\ dbResult = NoResult

C5_Witness ==
    /\ useSQL = <<FALSE>>
    /\ question = Text(q_eat)
    /\ pc = "done"

\* C6: when validateSQL rejects the generated query, the outcome is a
\* validation failure carrying exactly the validator's reason and exactly
\* the text that was validated, and the invocation ends without a database
\* call.
C6_RejectionCarriesReasonAndQuery ==
    Rejected =>
        /\ pc = "done"
        /\ Len(validated) = 1
        /\ res = <<[status |-> 400,
                    body |-> [error |-> FailedValidation,
                              reason |-> validation[1].error,
                              sql |-> validated[1].sql]]>>
        /\ dbQueries = <<>>
        /\ dbResult = NoResult

C6_Witness ==
    /\ Rejected
    /\ pc = "done"
    /\ res[1].body.reason = BlockedKeyword(union)
    /\ includes(toLowerCase(res[1].body.sql), union)

Outcome(a) == <<a.status, a.error>>

\* C7, read literally: a generation failure (the LLM throws, or the completion is
\* empty) is answered with an outcome that no validation rejection and no
\* execution failure is answered with.
C7_GenerationFailureDistinct ==
    \A a, b \in seen :
        (/\ a.cause \in {"llm_error", "empty_completion"}
         /\ b.cause \in {"validation", "execution"})
        => Outcome(a) # Outcome(b)

EmptyAfterCleanUp ==
    /\ llmResult.kind = "response"
    /\ llmResult.content # <<>>
    /\ cleanCompletion(llmResult.content[1].text) = <<>>

\* C7: an LLM call that throws is answered 500 'Query failed' with
\* the underlying message, an outcome no validation rejection is answered
\* with (an execution failure is answered with the same one); a completion
\* that is empty after clean-up is answered as a validation rejection with
\* the reason 'Only SELECT queries allowed' and is never executed.
C7_GenerationFailureAsAnswered ==
    /\ llmResult.kind = "throw" =>
          /\ Len(res) = 1
          /\ res[1].status = 500
          /\ res[1].body = [error |-> QueryFailed, message |-> llmResult.message]
    /\ \A a, b \in seen :
          a.cause = "llm_error" /\ b.cause = "validation" => Outcome(a) # Outcome(b)
    /\ EmptyAfterCleanUp =>
          /\ Len(res) = 1
          /\ res[1].status = 400
          /\ res[1].body = [error |-> FailedValidation,
                            reason |-> <<OnlySelectAllowed>>,
                            sql |-> <<>>]
          /\ dbQueries = <<>>

\* An LLM failure has been answered 500 'Query failed', and the current
\* request's completion, empty after clean-up, has been rejected.
C7_Witness ==
    /\ \E a \in seen : a.cause = "llm_error" /\ Outcome(a) = <<500, QueryFailed>>
    /\ EmptyAfterCleanUp
    /\ pc = "done"
    /\ res[1].status = 400

BadToken ==
    /\ req # NoRequest
    /\ Truthy(env.DASHBOARD_PASSWORD)
    /\ \/ tokenOf(req).t = "undefined"
       \/ tokenOf(req).v # expectedToken(env)

Unauthorized ==
    /\ pc = "done"
    /\ res = <<[status |-> 401, body |-> [error |-> "Unauthorized"]]>>
    /\ log = <<>>
    /\ useSQL = <<>>
    /\ llmCalls = <<>>
    /\ dbQueries = <<>>

OneResponse ==
    /\ Len(res) <= 1
    /\ pc = "done" <=> Len(res) = 1
    /\ req # NoRequest => pc # "idle"

\* C10, read literally: with a password configured, every request whose bearer
\* token is not the expected one is answered 401 and runs no classification,
\* LLM call or database call; every request has exactly one response.
C10_BadTokenUnauthorized == (BadToken => Unauthorized) /\ OneResponse

\* C10: with a password configured, every POST request whose
\* bearer token is not the expected one is answered 401 and runs no
\* classification, LLM call or database call; every request that has been
\* handled to its end has exactly one response, and none has more.
C10_BadTokenPostUnauthorized ==
    (BadToken /\ req.method = "POST" => Unauthorized) /\ OneResponse

C10_Witness ==
    /\ BadToken
    /\ req.method = "POST"
    /\ req.authorization = Header(<<"Bearer ", sha256hex("hunter2" \o DefaultSecret)>>)
    /\ env.AUTH_SECRET = Str("s3cret")
    /\ req.body = Body(Text(q_gin))
    /\ Unauthorized

-----------------------------------------------------------------------------
(* Properties of validateSQL, checked under SpecValidate *)

Denylisted ==
    {insert, update, delete, drop, alter, create, truncate, grant, revoke,
     semiDashDash, union}

RelationNames == {food_entries, daily_nutrition, weight}

AcceptableText(text) ==
    LET n == toLowerCase(trim(text))
    IN  /\ startsWith(n, select)
        /\ \A w \in Denylisted : ~includes(n, w)
        /\ \E t \in RelationNames : includes(n, t)

\* C4: validateSQL accepts a text if and only if its trimmed, lower-cased
\* form begins with 'select', contains no denylisted substring and contains
\* one of the three relation names, whatever the letter case of the input.
C4_AcceptsIff ==
    vResult # <<>> => (vResult[1].valid <=> AcceptableText(vSql))

\* An accepted text that is not in lower case.
C4_Witness ==
    /\ vResult # <<>>
    /\ vResult[1].valid
    /\ vSql = toUpperCase(select) \o <<" ">> \o toUpperCase(food_entries)

-----------------------------------------------------------------------------
(* Properties of isAggregationQuery, checked under SpecClassify *)

ListedPhrases ==
    {re_how_many, re_how_much, re_count, re_total, re_sum, re_average,
     re_frequency, re_times_did, re_days_did, re_number_of}

ContainsOneOf(q, phrases) == \E p \in phrases : includes(toLowerCase(q), p)

\* C8, read literally: the classifier returns true if and only if the case-folded
\* question contains one of: how many, how much, count, total, sum, average,
\* frequency, times did, days did, number of.
C8_TrueIffListedPhrase ==
    cResult # <<>> => (cResult[1] <=> ContainsOneOf(cQuestion, ListedPhrases))

\* C8: the classifier returns true if and only if the case-folded
\* question contains one of the ten phrases above or one of: avg, often.
C8_TrueIffPattern ==
    cResult # <<>> =>
        (cResult[1] <=> ContainsOneOf(cQuestion, ListedPhrases \cup {re_avg, re_often}))

\* A question classified true although it holds none of the ten phrases.
C8_Witness ==
    /\ cResult = <<TRUE>>
    /\ ~ContainsOneOf(cQuestion, ListedPhrases)
    /\ includes(cQuestion, re_often)

-----------------------------------------------------------------------------
(* Properties of formatResults, checked under SpecFormat *)

Min(a, b) == IF a < b THEN a ELSE b

ListingShaped(rows) ==
    /\ Len(rows) > 0
    /\ ~(Len(rows) = 1 /\ {"days", "entries", "count"} \cap DOMAIN rows[1] # {})

BulletPositions(a) == {i \in 1..Len(a) : a[i] = Bullet}

\* The position of the k-th bullet of the answer
BulletAt(a, k) ==
    CHOOSE i \in BulletPositions(a) :
        Cardinality({j \in BulletPositions(a) : j <= i}) = k

HasSuffix(a, n) ==
    /\ Len(a) >= 3
    /\ SubSeq(a, Len(a) - 2, Len(a)) = <<"\n... and ", ToString(n), " more entries">>

SuffixRule(a, n) ==
    /\ n > ListLimit => HasSuffix(a, n - ListLimit)
    /\ n <= ListLimit => \A i \in 1..Len(a) : a[i] # "\n... and "

\* C9, read literally: a listing-shaped result of n rows is rendered as exactly
\* min(n, 20) bullet lines, one per row in the order returned, with a suffix
\* naming n - 20 further entries if and only if n > 20, and rowCount = n.
C9_OneBulletPerRow ==
    fResult # <<>> /\ ListingShaped(fRows) =>
        LET a == fResult[1].answer
            n == Len(fRows)
        IN  /\ Cardinality(BulletPositions(a)) = Min(n, ListLimit)
            /\ \A k \in 1..Cardinality(BulletPositions(a)) :
                  a[BulletAt(a, k) + 1] = fRows[k].date.v
            /\ SuffixRule(a, n)
            /\ fResult[1].rowCount = n

HasDateAndName(r) ==
    /\ "date" \in DOMAIN r /\ Truthy(r.date)
    /\ "food_name" \in DOMAIN r /\ Truthy(r.food_name)

\* C9: a listing-shaped result of n rows is rendered as one
\* bullet line for each of the first min(n, 20) rows that has both a date
\* and a food name, in the order returned, with a suffix naming n - 20
\* further entries if and only if n > 20, and rowCount = n.
C9_OneBulletPerNamedRow ==
    fResult # <<>> /\ ListingShaped(fRows) =>
        LET a == fResult[1].answer
            n == Len(fRows)
            shown == SelectSeq(SubSeq(fRows, 1, Min(n, ListLimit)), HasDateAndName)
        IN  /\ Cardinality(BulletPositions(a)) = Len(shown)
            /\ \A k \in 1..Len(shown) :
                  /\ a[BulletAt(a, k) + 1] = shown[k].date.v
                  /\ a[BulletAt(a, k) + 3] = shown[k].food_name.v
            /\ SuffixRule(a, n)
            /\ fResult[1].rowCount = n

\* More than 20 rows, one of the first 20 without a food name: 19 bullets
\* and the suffix.
C9_Witness ==
    /\ fResult # <<>>
    /\ Len(fRows) = ListLimit + 2
    /\ \E i \in 1..ListLimit : ~HasDateAndName(fRows[i])
    /\ Cardinality(BulletPositions(fResult[1].answer)) = ListLimit - 1
    /\ HasSuffix(fResult[1].answer, 2)

=============================================================================
